---------------------------- MODULE Spec2Model ----------------------------
(***************************************************************************)
(* Model of yb/common/ql_rowblock.cc: QLRow, QLRowBlock, the CQL wire      *)
(* framing of a row block (4-byte big-endian row count, then the rows),    *)
(* the row-count peek and the byte-level merge of two encoded pages.       *)
(*                                                                         *)
(* Bytes are integers 0..255 and a buffer is a sequence of bytes.  int32   *)
(* values keep their width: every conversion goes through the four bytes.  *)
(***************************************************************************)
EXTENDS Integers, Sequences, FiniteSets, TLC

VARIABLES
  schema_,     \* QLRowBlock::schema_ : the block's private schema (a sequence of columns)
  column_ids,  \* the column_ids the block was constructed with: << ids >>, or << >> (none)
  rows_,       \* QLRowBlock::rows_   : the block's rows, in insertion order
  buffer,      \* the faststring handed to Serialize
  data,        \* the Slice the last call decoded from, as the call left it
  input,       \* the bytes the last decoding call was given
  status,      \* the Status the last call returned ("none" for a void call)
  op,          \* the last operation, with its dialect
  before,      \* the number of rows the block held when the last operation started
  ser,         \* the last Serialize call: the rows it encoded and the buffer it was handed
  aborted,     \* TRUE once a CHECK failed or the process crashed
  row,         \* free-standing QLRow objects, by name: << >> (none) or << the row >>
  src,         \* AppendRowsData's src argument of the last call
  dst,         \* AppendRowsData's dst buffer
  dst_prev,    \* dst as it was when the last AppendRowsData call started
  dst_init,    \* dst as it was before the first AppendRowsData call
  pages,       \* the src buffers of the AppendRowsData calls that returned OK, in call order
  count        \* the last GetRowCount call: its bytes, its status and *count

vars == << schema_, column_ids, rows_, buffer, data, input, status, op, before, ser, aborted,
           row, src, dst, dst_prev, dst_init, pages, count >>

-----------------------------------------------------------------------------
(* Bounds of the model *)

MaxRows == 2
MaxBuffer == 24
MaxPages == 2
MaxPageRows == 1

-----------------------------------------------------------------------------
(* int32 and its 4-byte network-order form *)

MaxInt32 == 2147483647

\* NetworkByteOrder::Store32 of an int32_t: most significant byte first.
Store32(n) ==
  LET low == IF n >= 0 THEN n ELSE (n + MaxInt32) + 1
      top == IF n >= 0 THEN 0 ELSE 128
  IN  << top + (low \div 16777216), (low \div 65536) % 256,
         (low \div 256) % 256, low % 256 >>

\* NetworkByteOrder::Load32 of four bytes, stored into an int32_t.
Load32(b) ==
  LET b0 == IF b[1] >= 128 THEN b[1] - 256 ELSE b[1]
  IN  ((b0 * 256 + b[2]) * 256 + b[3]) * 256 + b[4]

\* CQLEncodeLength(length, buffer): the four bytes appended to the buffer.
CQLEncodeLength(length) == Store32(length)

\* CQLDecodeNum(sizeof(int32_t), Load32, data, &val): fails on fewer than four
\* bytes, else loads the number and removes the four bytes from the slice.
CQLDecodeNum(d) ==
  IF Len(d) < 4
    THEN [status |-> "MalformedInput", val |-> 0, rest |-> d]
    ELSE [status |-> "OK", val |-> Load32(SubSeq(d, 1, 4)),
          rest |-> SubSeq(d, 5, Len(d))]

\* int32_t converted to size_t (*count = cnt): a negative number wraps to
\* 2^64 + cnt, kept here as a carry and the int32 value.
ToSizeT(cnt) == [carry |-> IF cnt < 0 THEN 1 ELSE 0, v |-> cnt]

-----------------------------------------------------------------------------
(* The value codec *)

NullValue == [kind |-> "null"]
Int8Value(v) == [kind |-> "int8", v |-> v]
StringValue(s) == [kind |-> "string", s |-> s]

\* QLValue::Serialize(type, client, buffer): a length, then the bytes; a null
\* value is the length -1 alone.
QLValue_Serialize(type, v) ==
  IF v.kind = "null" THEN CQLEncodeLength(-1)
  ELSE IF type = "INT8" THEN CQLEncodeLength(1) \o << v.v % 256 >>
  ELSE CQLEncodeLength(Len(v.s)) \o v.s

\* QLValue::Deserialize(type, client, data)
QLValue_Deserialize(type, d) ==
  LET h == CQLDecodeNum(d)
      bad == [status |-> "MalformedInput", value |-> NullValue, rest |-> h.rest]
  IN  IF h.status # "OK" THEN bad
      ELSE IF h.val = -1 THEN [status |-> "OK", value |-> NullValue, rest |-> h.rest]
      ELSE IF type = "INT8"
        THEN IF h.val # 1 \/ Len(h.rest) < 1 THEN bad
             ELSE [status |-> "OK",
                   value |-> Int8Value(IF h.rest[1] >= 128 THEN h.rest[1] - 256
                                                            ELSE h.rest[1]),
                   rest |-> SubSeq(h.rest, 2, Len(h.rest))]
        ELSE IF h.val < 0 \/ Len(h.rest) < h.val THEN bad
             ELSE [status |-> "OK",
                   value |-> StringValue(SubSeq(h.rest, 1, h.val)),
                   rest |-> SubSeq(h.rest, h.val + 1, Len(h.rest))]

-----------------------------------------------------------------------------
(* Schema and QLRow *)

Column(id, type) == [id |-> id, type |-> type]

\* Schema::num_columns()
num_columns(schema) == Len(schema)

\* A shared_ptr<const Schema>: << >> is the null pointer, << S >> points to S.
NullSchemaPtr == << >>
SchemaPtr(schema) == << schema >>

\* QLRow::QLRow(const shared_ptr<const Schema>& schema): one default (null)
\* value per column of the schema.
QLRow(schema) ==
  [schema_ |-> SchemaPtr(schema),
   values_ |-> [i \in 1..num_columns(schema) |-> NullValue]]

\* QLRow::QLRow(const QLRow& other)
QLRow_Copy(other) == [schema_ |-> other.schema_, values_ |-> other.values_]

\* QLRow::QLRow(QLRow&& other): the new row; MovedFrom is what the move leaves
\* in other (a moved-from shared_ptr is null, a moved-from vector is empty).
QLRow_Move(other) == [schema_ |-> other.schema_, values_ |-> other.values_]

MovedFrom == [schema_ |-> NullSchemaPtr, values_ |-> << >>]

\* QLRow::operator=(const QLRow& other) on a row other than this one: this is
\* destroyed and constructed again as a copy of other.
QLRow_Assign(this, other) == QLRow_Copy(other)

\* QLRow::operator=(QLRow&& other) on a row other than this one: other is a
\* named reference, so QLRow(other) is the copy constructor and other keeps
\* its schema and values.
QLRow_MoveAssign(this, other) == QLRow_Copy(other)

\* Either operator= with other being this row itself: the row is destroyed
\* and then copy-constructed from its own destroyed members, which is
\* undefined. The vector's copy constructor allocates and then copies the
\* range between its own begin and end, now equal: the row ends with its
\* schema pointer and no values; or the read of the freed members crashes.
QLRow_SelfAssign(this) ==
  { [crash |-> FALSE, row |-> [schema_ |-> this.schema_, values_ |-> << >>]],
    [crash |-> TRUE, row |-> this] }

\* QLRow::column_type(col_idx), columns counted from 1 here.
column_type(r, col_idx) == r.schema_[1][col_idx].type

RECURSIVE QLRow_SerializeFrom(_, _, _)
\* The loop of QLRow::Serialize from column col_idx on.
QLRow_SerializeFrom(r, col_idx, buf) ==
  IF col_idx > num_columns(r.schema_[1]) THEN buf
  ELSE QLRow_SerializeFrom(r, col_idx + 1,
         buf \o QLValue_Serialize(column_type(r, col_idx), r.values_[col_idx]))

\* QLRow::Serialize(client, buffer): the buffer after the call.
QLRow_Serialize(r, buf) == QLRow_SerializeFrom(r, 1, buf)

RECURSIVE QLRow_DeserializeFrom(_, _, _)
\* The loop of QLRow::Deserialize from column col_idx on: stops at the first
\* value that fails, leaving the values decoded so far in the row.
QLRow_DeserializeFrom(r, col_idx, d) ==
  IF col_idx > num_columns(r.schema_[1])
    THEN [status |-> "OK", row |-> r, rest |-> d]
    ELSE LET v == QLValue_Deserialize(column_type(r, col_idx), d)
         IN  IF v.status # "OK"
               THEN [status |-> v.status, row |-> r, rest |-> v.rest]
               ELSE QLRow_DeserializeFrom(
                      [r EXCEPT !.values_[col_idx] = v.value], col_idx + 1, v.rest)

\* A bug: the values are read from the data but not stored in the row.
QLRow_Deserialize_DropsValues(r, d) ==
  [QLRow_DeserializeFrom(r, 1, d) EXCEPT !.row = r]

\* QLRow::Deserialize(client, data)
QLRow_Deserialize(r, d) == QLRow_DeserializeFrom(r, 1, d)

-----------------------------------------------------------------------------
(* QLRowBlock *)

\* QLRowBlock::Extend(): rows_ after rows_.emplace_back(schema_).
QLRowBlock_Extend(schema, rows) == Append(rows, QLRow(schema))

\* A bug: the row is put in front of the rows instead of behind them.
QLRowBlock_AddRow_InFront(rows, r) == << QLRow_Copy(r) >> \o rows

\* QLRowBlock::AddRow(row): rows_ after rows_.push_back(row); no schema check.
QLRowBlock_AddRow(rows, r) == Append(rows, QLRow_Copy(r))

RECURSIVE QLRowBlock_SerializeRows(_, _, _)
\* The loop of QLRowBlock::Serialize over rows_, from row i on.
QLRowBlock_SerializeRows(rows, i, buf) ==
  IF i > Len(rows) THEN buf
  ELSE QLRowBlock_SerializeRows(rows, i + 1, QLRow_Serialize(rows[i], buf))

\* A bug: the buffer is cleared before the block is written to it.
QLRowBlock_Serialize_Clears(rows, buf) ==
  QLRowBlock_SerializeRows(rows, 1, CQLEncodeLength(Len(rows)))

\* QLRowBlock::Serialize(client, buffer) for the CQL client: the buffer after
\* the call.
QLRowBlock_Serialize(rows, buf) ==
  QLRowBlock_SerializeRows(rows, 1, buf \o CQLEncodeLength(Len(rows)))

RECURSIVE QLRowBlock_DeserializeRows(_, _, _, _, _)
\* The loop of QLRowBlock::Deserialize, at index i of count, and the check
\* for bytes left over that follows it.
QLRowBlock_DeserializeRows(schema, rows, i, cnt, d) ==
  IF i < cnt
    THEN LET extended == QLRowBlock_Extend(schema, rows)
             r == QLRow_Deserialize(extended[Len(extended)], d)
             next == [extended EXCEPT ![Len(extended)] = r.row]
         IN  IF r.status # "OK"
               THEN [status |-> r.status, rows |-> next, rest |-> r.rest]
               ELSE QLRowBlock_DeserializeRows(schema, next, i + 1, cnt, r.rest)
    ELSE IF d # << >>
      THEN [status |-> "Corruption", rows |-> rows, rest |-> d]
      ELSE [status |-> "OK", rows |-> rows, rest |-> d]

\* A bug: bytes left over after the declared rows are accepted.
QLRowBlock_Deserialize_Lenient(schema, rows, d) ==
  LET c == CQLDecodeNum(d)
      r == QLRowBlock_DeserializeRows(schema, rows, 0, c.val, c.rest)
  IN  IF c.status # "OK"
        THEN [status |-> c.status, rows |-> rows, rest |-> c.rest]
        ELSE IF r.status = "Corruption" THEN [r EXCEPT !.status = "OK"] ELSE r

\* A bug: on an error the rows added for the input are taken out again.
QLRowBlock_Deserialize_RollsBack(schema, rows, d) ==
  LET c == CQLDecodeNum(d)
      r == QLRowBlock_DeserializeRows(schema, rows, 0, c.val, c.rest)
  IN  IF c.status # "OK"
        THEN [status |-> c.status, rows |-> rows, rest |-> c.rest]
        ELSE IF r.status # "OK" THEN [r EXCEPT !.rows = rows] ELSE r

\* QLRowBlock::Deserialize(client, data) for the CQL client: the status, the
\* block's rows and the slice after the call.
QLRowBlock_Deserialize(schema, rows, d) ==
  LET c == CQLDecodeNum(d)
  IN  IF c.status # "OK"
        THEN [status |-> c.status, rows |-> rows, rest |-> c.rest]
        ELSE QLRowBlock_DeserializeRows(schema, rows, 0, c.val, c.rest)

\* QLRowBlock::GetRowCount(client, data, &count) for the CQL client: the
\* status and *count after the call (old: *count before it).
QLRowBlock_GetRowCount(d, old) ==
  LET c == CQLDecodeNum(d)
  IN  IF c.status # "OK" THEN [status |-> c.status, count |-> old]
      ELSE [status |-> "OK", count |-> ToSizeT(c.val)]

\* dst_cnt += src_cnt on int32_t with src_cnt > 0: the exact sum, or, when it
\* leaves the int32 range (signed overflow), what a build can produce: the sum
\* wrapped to 32 bits, or a trap.
AddCounts(dst_cnt, src_cnt) ==
  IF dst_cnt <= MaxInt32 - src_cnt
    THEN { [trap |-> FALSE, sum |-> dst_cnt + src_cnt] }
    ELSE { [trap |-> FALSE, sum |-> ((dst_cnt - MaxInt32) - 1) + ((src_cnt - MaxInt32) - 1)],
           [trap |-> TRUE, sum |-> 0] }

\* A bug: the rows are appended but dst's count is not written again.
QLRowBlock_AppendRowsData_StaleCount(s, d) ==
  LET sc == CQLDecodeNum(s)
      dc == CQLDecodeNum(d)
  IN  IF sc.status # "OK" THEN { [status |-> sc.status, dst |-> d, trap |-> FALSE] }
      ELSE IF sc.val > 0
        THEN IF dc.status # "OK" THEN { [status |-> dc.status, dst |-> d, trap |-> FALSE] }
             ELSE IF dc.val = 0 THEN { [status |-> "OK", dst |-> s, trap |-> FALSE] }
             ELSE { [status |-> "OK", dst |-> d \o sc.rest, trap |-> FALSE] }
        ELSE { [status |-> "OK", dst |-> d, trap |-> FALSE] }

\* A bug: the test is src_cnt >= 0, so a src without rows is merged too.
QLRowBlock_AppendRowsData_MergesEmpty(s, d) ==
  LET sc == CQLDecodeNum(s)
      dc == CQLDecodeNum(d)
  IN  IF sc.status # "OK" THEN { [status |-> sc.status, dst |-> d, trap |-> FALSE] }
      ELSE IF sc.val >= 0
        THEN IF dc.status # "OK" THEN { [status |-> dc.status, dst |-> d, trap |-> FALSE] }
             ELSE IF dc.val = 0 THEN { [status |-> "OK", dst |-> s, trap |-> FALSE] }
             ELSE { IF a.trap
                      THEN [status |-> "none", dst |-> d \o sc.rest, trap |-> TRUE]
                      ELSE [status |-> "OK",
                            dst |-> CQLEncodeLength(a.sum)
                                      \o SubSeq(d \o sc.rest, 5, Len(d) + Len(sc.rest)),
                            trap |-> FALSE]
                    : a \in AddCounts(dc.val, sc.val) }
        ELSE { [status |-> "OK", dst |-> d, trap |-> FALSE] }

\* A bug: src is appended to dst whole, its count included.
QLRowBlock_AppendRowsData_KeepsPrefix(s, d) ==
  LET sc == CQLDecodeNum(s)
      dc == CQLDecodeNum(d)
  IN  IF sc.status # "OK" THEN { [status |-> sc.status, dst |-> d, trap |-> FALSE] }
      ELSE IF sc.val > 0
        THEN IF dc.status # "OK" THEN { [status |-> dc.status, dst |-> d, trap |-> FALSE] }
             ELSE IF dc.val = 0 THEN { [status |-> "OK", dst |-> s, trap |-> FALSE] }
             ELSE { IF a.trap
                      THEN [status |-> "none", dst |-> d \o s, trap |-> TRUE]
                      ELSE [status |-> "OK",
                            dst |-> CQLEncodeLength(a.sum)
                                      \o SubSeq(d \o s, 5, Len(d) + Len(s)),
                            trap |-> FALSE]
                    : a \in AddCounts(dc.val, sc.val) }
        ELSE { [status |-> "OK", dst |-> d, trap |-> FALSE] }

\* A bug: the status of decoding dst's count is dropped, and a dst too short
\* for a count is taken for one with the count 0.
QLRowBlock_AppendRowsData_IgnoresShortDst(s, d) ==
  LET sc == CQLDecodeNum(s)
      dc == CQLDecodeNum(d)
  IN  IF sc.status # "OK" THEN { [status |-> sc.status, dst |-> d, trap |-> FALSE] }
      ELSE IF sc.val > 0
        THEN IF dc.val = 0 THEN { [status |-> "OK", dst |-> s, trap |-> FALSE] }
             ELSE { IF a.trap
                      THEN [status |-> "none", dst |-> d \o sc.rest, trap |-> TRUE]
                      ELSE [status |-> "OK",
                            dst |-> CQLEncodeLength(a.sum)
                                      \o SubSeq(d \o sc.rest, 5, Len(d) + Len(sc.rest)),
                            trap |-> FALSE]
                    : a \in AddCounts(dc.val, sc.val) }
        ELSE { [status |-> "OK", dst |-> d, trap |-> FALSE] }

\* A bug: the test is src_cnt != 0, so a src with a negative count is merged
\* too.
QLRowBlock_AppendRowsData_MergesNegative(s, d) ==
  LET sc == CQLDecodeNum(s)
      dc == CQLDecodeNum(d)
      sums == IF sc.val > 0 THEN AddCounts(dc.val, sc.val)
              ELSE { [trap |-> FALSE,
                      sum |-> IF dc.val >= (-MaxInt32 - 1) - sc.val
                                THEN dc.val + sc.val
                                ELSE ((dc.val + MaxInt32) + 1) + ((sc.val + MaxInt32) + 1)] }
  IN  IF sc.status # "OK" THEN { [status |-> sc.status, dst |-> d, trap |-> FALSE] }
      ELSE IF sc.val # 0
        THEN IF dc.status # "OK" THEN { [status |-> dc.status, dst |-> d, trap |-> FALSE] }
             ELSE IF dc.val = 0 THEN { [status |-> "OK", dst |-> s, trap |-> FALSE] }
             ELSE { IF a.trap
                      THEN [status |-> "none", dst |-> d \o sc.rest, trap |-> TRUE]
                      ELSE [status |-> "OK",
                            dst |-> CQLEncodeLength(a.sum)
                                      \o SubSeq(d \o sc.rest, 5, Len(d) + Len(sc.rest)),
                            trap |-> FALSE]
                    : a \in sums }
        ELSE { [status |-> "OK", dst |-> d, trap |-> FALSE] }

\* QLRowBlock::AppendRowsData(client, src, dst) for the CQL client: the set of
\* outcomes (status, dst after the call, whether the process died).
QLRowBlock_AppendRowsData(s, d) ==
  LET sc == CQLDecodeNum(s)
      dc == CQLDecodeNum(d)
  IN  IF sc.status # "OK" THEN { [status |-> sc.status, dst |-> d, trap |-> FALSE] }
      ELSE IF sc.val > 0
        THEN IF dc.status # "OK" THEN { [status |-> dc.status, dst |-> d, trap |-> FALSE] }
             ELSE IF dc.val = 0 THEN { [status |-> "OK", dst |-> s, trap |-> FALSE] }
             ELSE { IF a.trap
                      THEN [status |-> "none", dst |-> d \o sc.rest, trap |-> TRUE]
                      ELSE [status |-> "OK",
                            dst |-> CQLEncodeLength(a.sum)
                                      \o SubSeq(d \o sc.rest, 5, Len(d) + Len(sc.rest)),
                            trap |-> FALSE]
                    : a \in AddCounts(dc.val, sc.val) }
        ELSE { [status |-> "OK", dst |-> d, trap |-> FALSE] }

-----------------------------------------------------------------------------
(* Construction of a block, and the inputs of the model *)

\* The schema a block is constructed on directly, and the one it is projected from.
DirectSchema == << Column(1, "INT8"), Column(2, "STRING") >>
BaseSchema == << Column(1, "INT8"), Column(2, "STRING"), Column(3, "INT8") >>

\* The column-id lists a block is projected with; id 9 is in no schema.
ColumnIdLists == { << 3, 1, 9 >>, << 2 >>, << 9 >> }

RECURSIVE CreateProjectionByIdsIgnoreMissing(_, _)
\* Schema::CreateProjectionByIdsIgnoreMissing(column_ids, out): the columns of
\* the schema whose ids are listed, in the order of the list, ids the schema
\* lacks skipped.
CreateProjectionByIdsIgnoreMissing(schema, ids) ==
  IF ids = << >> THEN << >>
  ELSE LET found == { i \in 1..Len(schema) : schema[i].id = ids[1] }
       IN  (IF found = {} THEN << >> ELSE << schema[CHOOSE i \in found : TRUE] >>)
           \o CreateProjectionByIdsIgnoreMissing(schema, Tail(ids))

\* QLRowBlock::QLRowBlock(schema): a private copy of the schema.
QLRowBlock_New(schema) == schema

\* A bug: the columns are taken in the order of the base schema, not in the
\* order of the list.
QLRowBlock_NewProjected_BaseOrder(schema, ids) ==
  SelectSeq(schema, LAMBDA col : \E k \in 1..Len(ids) : ids[k] = col.id)

\* QLRowBlock::QLRowBlock(schema, column_ids): the projected schema.
QLRowBlock_NewProjected(schema, ids) ==
  CreateProjectionByIdsIgnoreMissing(schema, ids)

\* enum QLClient; YQL_CLIENT_CQL is the one the row block supports.
QLClient == { "YQL_CLIENT_CQL", "YQL_CLIENT_PGSQL", "YQL_CLIENT_REDIS" }

\* The values a caller stores in a column of each type.
ValuesOf(type) ==
  IF type = "INT8" THEN { Int8Value(-1) } ELSE { StringValue(<< 120 >>) }

\* Rows built outside the block and handed to AddRow: one on the block's own
\* schema, one on a different schema.
ForeignSchema == << Column(7, "STRING") >>

ExternalRows(schema) ==
  { QLRow(schema),
    [QLRow(ForeignSchema) EXCEPT !.values_[1] = StringValue(<< 121 >>)] }

\* Bytes put after an encoding: a stray byte, and four bytes that read as one
\* more null value.
Trailers == { << 0 >>, CQLEncodeLength(-1) }

\* Row counts written over an encoding's prefix.
PatchedCounts == { -1, 1, MaxInt32 }

NoSer == [done |-> FALSE, rows |-> << >>, old |-> << >>]
NoCount == [of |-> << >>, status |-> "none", count |-> ToSizeT(0)]

\* The names of the free-standing rows.
RowNames == { "a", "b" }
NoRows == [n \in RowNames |-> << >>]

Call(name, client, kind) == [name |-> name, client |-> client, kind |-> kind]

-----------------------------------------------------------------------------
(* The row block: construction, growth, Serialize and Deserialize *)

Init ==
  /\ \/ /\ schema_ = QLRowBlock_New(DirectSchema)
        /\ column_ids = << >>
     \/ \E ids \in ColumnIdLists :
          /\ schema_ = QLRowBlock_NewProjected(BaseSchema, ids)
          /\ column_ids = << ids >>
  /\ rows_ = << >>
  /\ buffer = << >>
  /\ data = << >>
  /\ input = << >>
  /\ status = "none"
  /\ op = Call("Construct", "YQL_CLIENT_CQL", "none")
  /\ before = 0
  /\ ser = NoSer
  /\ aborted = FALSE
  /\ row = NoRows
  /\ src = << >>
  /\ dst = << >>
  /\ dst_prev = << >>
  /\ dst_init = << >>
  /\ pages = << >>
  /\ count = NoCount

Unused == UNCHANGED << row, src, dst, dst_prev, dst_init, pages, count >>

\* A call that takes no bytes: what it records.
Plain(name, st) ==
  /\ op' = Call(name, "YQL_CLIENT_CQL", "none")
  /\ before' = Len(rows_)
  /\ status' = st
  /\ data' = << >>
  /\ input' = << >>

\* A bug: the check is compiled out (a DCHECK), and the call goes on.
CheckFailed_Ignored(name, client) ==
  /\ client # "YQL_CLIENT_CQL"
  /\ aborted' = aborted
  /\ op' = Call(name, client, "none")
  /\ before' = Len(rows_)

\* CHECK_EQ(client, YQL_CLIENT_CQL) fails: the process ends there.
CheckFailed(name, client) ==
  /\ client # "YQL_CLIENT_CQL"
  /\ aborted' = TRUE
  /\ op' = Call(name, client, "none")
  /\ before' = Len(rows_)

\* A new QLRowBlock on the same schema takes the place of the block.
Construct ==
  /\ ~aborted
  /\ rows_ # << >>
  /\ rows_' = << >>
  /\ Plain("Construct", "none")
  /\ UNCHANGED << schema_, column_ids, buffer, ser, aborted >>
  /\ Unused

Extend ==
  /\ ~aborted
  /\ Len(rows_) < MaxRows
  /\ rows_' = QLRowBlock_Extend(schema_, rows_)
  /\ Plain("Extend", "none")
  /\ UNCHANGED << schema_, column_ids, buffer, ser, aborted >>
  /\ Unused

\* The caller fills a column of the row Extend returned (rows_.back()).
SetValue ==
  /\ ~aborted
  /\ rows_ # << >>
  /\ rows_[Len(rows_)].schema_ = SchemaPtr(schema_)
  /\ \E c \in 1..num_columns(schema_) :
       /\ rows_[Len(rows_)].values_[c] = NullValue
       /\ \E v \in ValuesOf(schema_[c].type) :
            rows_' = [rows_ EXCEPT ![Len(rows_)].values_[c] = v]
  /\ Plain("SetValue", "none")
  /\ UNCHANGED << schema_, column_ids, buffer, ser, aborted >>
  /\ Unused

AddRow ==
  /\ ~aborted
  /\ Len(rows_) < MaxRows
  /\ \E r \in ExternalRows(schema_) : rows_' = QLRowBlock_AddRow(rows_, r)
  /\ Plain("AddRow", "OK")
  /\ UNCHANGED << schema_, column_ids, buffer, ser, aborted >>
  /\ Unused

\* What the faststring handed to Serialize holds before the call: nothing, or
\* bytes written to it earlier.
Prefilled == { << >>, << 7, 7 >> }

Serialize ==
  /\ ~aborted
  /\ \E client \in QLClient, old \in Prefilled :
       \/ /\ CheckFailed("Serialize", client)
          /\ UNCHANGED << rows_, buffer, status, ser, data, input >>
       \/ /\ client = "YQL_CLIENT_CQL"
          /\ Len(QLRowBlock_Serialize(rows_, old)) <= MaxBuffer
          /\ buffer' = QLRowBlock_Serialize(rows_, old)
          /\ ser' = [done |-> TRUE, rows |-> rows_, old |-> old]
          /\ Plain("Serialize", "none")
          /\ UNCHANGED << rows_, aborted >>
  /\ UNCHANGED << schema_, column_ids >>
  /\ Unused

\* The byte strings Deserialize is given: the buffer as Serialize left it, the
\* buffer with bytes after it, with its last byte cut, with another count
\* written over its prefix, and a string shorter than a count.
DeserializeInputs ==
  { [kind |-> "exact", bytes |-> buffer] }
    \cup { [kind |-> "trailing", bytes |-> buffer \o t] : t \in Trailers }
    \cup { [kind |-> "truncated", bytes |-> SubSeq(buffer, 1, Len(buffer) - 1)] }
    \cup { [kind |-> "patched", bytes |-> CQLEncodeLength(c) \o SubSeq(buffer, 5, Len(buffer))]
           : c \in PatchedCounts }
    \cup { [kind |-> "short", bytes |-> << 0, 0 >>] }

Deserialize ==
  /\ ~aborted
  /\ ser.done
  /\ \E client \in QLClient, in \in DeserializeInputs :
       \/ /\ CheckFailed("Deserialize", client)
          /\ UNCHANGED << rows_, data, input, status >>
       \/ /\ client = "YQL_CLIENT_CQL"
          /\ Len(rows_) < MaxRows
          /\ num_columns(schema_) = 0 => CQLDecodeNum(in.bytes).val <= MaxRows
          /\ LET r == QLRowBlock_Deserialize(schema_, rows_, in.bytes)
             IN  /\ rows_' = r.rows
                 /\ data' = r.rest
                 /\ status' = r.status
          /\ input' = in.bytes
          /\ op' = Call("Deserialize", client, in.kind)
          /\ before' = Len(rows_)
          /\ UNCHANGED aborted
  /\ UNCHANGED << schema_, column_ids, buffer, ser >>
  /\ Unused

Next ==
  \/ Construct
  \/ Extend
  \/ SetValue
  \/ AddRow
  \/ Serialize
  \/ Deserialize

Spec == Init /\ [][Next]_vars

-----------------------------------------------------------------------------
(* Encoded pages: the row-count peek, the merge, and decoding the result *)

\* The schema of the pages that are merged, and the rows a page holds.
PageSchema == << Column(1, "INT8") >>
PageRow(v) == [QLRow(PageSchema) EXCEPT !.values_[1] = v]
PageValues == { NullValue, Int8Value(-1) }

RECURSIVE RowSeqs(_)
\* The row sequences of at most n rows.
RowSeqs(n) ==
  IF n = 0 THEN { << >> }
  ELSE RowSeqs(n - 1)
         \cup { Append(rs, PageRow(v)) : rs \in RowSeqs(n - 1), v \in PageValues }

\* The encodings Serialize makes of those row sequences.
Pages == { QLRowBlock_Serialize(rs, << >>) : rs \in RowSeqs(MaxPageRows) }

\* Buffers that are no encoding of a block: two bytes; a count of 0 and a
\* stray byte; a count of -1 alone and with a row after it; a count of
\* 2^31 - 1 with one row after it.
OddBuffers ==
  { << 0, 0 >>,
    CQLEncodeLength(0) \o << 7 >>,
    CQLEncodeLength(-1),
    CQLEncodeLength(-1) \o QLRow_Serialize(PageRow(NullValue), << >>),
    CQLEncodeLength(MaxInt32) \o QLRow_Serialize(PageRow(Int8Value(-1)), << >>) }

MergeBuffers == Pages \cup OddBuffers

InitMerge ==
  /\ schema_ = QLRowBlock_New(PageSchema)
  /\ column_ids = << >>
  /\ rows_ = << >>
  /\ buffer = << >>
  /\ data = << >>
  /\ input = << >>
  /\ status = "none"
  /\ op = Call("Construct", "YQL_CLIENT_CQL", "none")
  /\ before = 0
  /\ ser = NoSer
  /\ aborted = FALSE
  /\ row = NoRows
  /\ src = << >>
  /\ dst \in MergeBuffers
  /\ dst_prev = << >>
  /\ dst_init = dst
  /\ pages = << >>
  /\ count = NoCount

\* The block a page is decoded into is a new one each time.
NoBlock ==
  /\ rows_' = << >>
  /\ data' = << >>
  /\ input' = << >>
  /\ before' = 0
  /\ buffer' = << >>
  /\ ser' = NoSer

AppendRowsData ==
  /\ ~aborted
  /\ \E client \in QLClient, s \in MergeBuffers :
       \/ /\ CheckFailed("AppendRowsData", client)
          /\ UNCHANGED << rows_, buffer, data, input, status, ser >>
          /\ UNCHANGED << src, dst, dst_prev, pages, count >>
       \/ /\ client = "YQL_CLIENT_CQL"
          /\ Len(pages) < MaxPages
          /\ \E out \in QLRowBlock_AppendRowsData(s, dst) :
               /\ dst' = out.dst
               /\ status' = out.status
               /\ aborted' = out.trap
               /\ pages' = IF out.status = "OK" THEN Append(pages, s) ELSE pages
          /\ src' = s
          /\ dst_prev' = dst
          /\ op' = Call("AppendRowsData", client, "none")
          /\ count' = NoCount
          /\ NoBlock
  /\ UNCHANGED << schema_, column_ids, row, dst_init >>

GetRowCount ==
  /\ ~aborted
  /\ \E client \in QLClient :
       \/ /\ CheckFailed("GetRowCount", client)
          /\ UNCHANGED << rows_, buffer, data, input, status, ser, count >>
       \/ /\ client = "YQL_CLIENT_CQL"
          /\ LET g == QLRowBlock_GetRowCount(dst, count.count)
             IN  /\ count' = [of |-> dst, status |-> g.status, count |-> g.count]
                 /\ status' = g.status
          /\ op' = Call("GetRowCount", client, "none")
          /\ NoBlock
          /\ UNCHANGED aborted
  /\ UNCHANGED << schema_, column_ids, row, src, dst, dst_prev, dst_init, pages >>

\* A new block on the pages' schema decodes dst.
DeserializePage ==
  /\ ~aborted
  /\ \E client \in QLClient :
       \/ /\ CheckFailed("Deserialize", client)
          /\ UNCHANGED << rows_, buffer, data, input, status, ser >>
       \/ /\ client = "YQL_CLIENT_CQL"
          /\ LET r == QLRowBlock_Deserialize(schema_, << >>, dst)
             IN  /\ rows_' = r.rows
                 /\ data' = r.rest
                 /\ status' = r.status
          /\ input' = dst
          /\ before' = 0
          /\ op' = Call("Deserialize", client, "page")
          /\ buffer' = << >>
          /\ ser' = NoSer
          /\ UNCHANGED aborted
  /\ UNCHANGED << schema_, column_ids, row, src, dst, dst_prev, dst_init, pages, count >>

NextMerge ==
  \/ AppendRowsData
  \/ GetRowCount
  \/ DeserializePage
  \/ Serialize

SpecMerge == InitMerge /\ [][NextMerge]_vars

-----------------------------------------------------------------------------
(* QLRow objects: construction, copy, move, assignment, and rows in a block *)

RowSchemas == { DirectSchema, ForeignSchema }

InitRow ==
  /\ schema_ = QLRowBlock_New(DirectSchema)
  /\ column_ids = << >>
  /\ rows_ = << >>
  /\ buffer = << >>
  /\ data = << >>
  /\ input = << >>
  /\ status = "none"
  /\ op = Call("Construct", "YQL_CLIENT_CQL", "none")
  /\ before = 0
  /\ ser = NoSer
  /\ aborted = FALSE
  /\ row = NoRows
  /\ src = << >>
  /\ dst = << >>
  /\ dst_prev = << >>
  /\ dst_init = << >>
  /\ pages = << >>
  /\ count = NoCount

Live(n) == row[n] # << >>

\* What an operation on the free-standing rows leaves alone.
RowOp(name) ==
  /\ op' = Call(name, "YQL_CLIENT_CQL", "none")
  /\ UNCHANGED << schema_, column_ids, buffer, data, input, status, before, ser >>
  /\ UNCHANGED << src, dst, dst_prev, dst_init, pages, count >>

RowNew ==
  /\ ~aborted
  /\ \E n \in RowNames, s \in RowSchemas :
       /\ ~Live(n)
       /\ row' = [row EXCEPT ![n] = << QLRow(s) >>]
  /\ RowOp("QLRow")
  /\ UNCHANGED << rows_, aborted >>

\* The caller stores a value in the first column of a row.
RowSetValue ==
  /\ ~aborted
  /\ \E n \in RowNames :
       /\ Live(n)
       /\ row[n][1].schema_ # NullSchemaPtr
       /\ Len(row[n][1].values_) >= 1
       /\ row[n][1].values_[1] = NullValue
       /\ \E v \in ValuesOf(column_type(row[n][1], 1)) :
            row' = [row EXCEPT ![n][1].values_[1] = v]
  /\ RowOp("SetValue")
  /\ UNCHANGED << rows_, aborted >>

RowCopy ==
  /\ ~aborted
  /\ \E n \in RowNames, m \in RowNames :
       /\ ~Live(n)
       /\ Live(m)
       /\ row' = [row EXCEPT ![n] = << QLRow_Copy(row[m][1]) >>]
  /\ RowOp("QLRow(const QLRow&)")
  /\ UNCHANGED << rows_, aborted >>

RowMove ==
  /\ ~aborted
  /\ \E n \in RowNames, m \in RowNames :
       /\ ~Live(n)
       /\ Live(m)
       /\ row' = [row EXCEPT ![n] = << QLRow_Move(row[m][1]) >>, ![m] = << MovedFrom >>]
  /\ RowOp("QLRow(QLRow&&)")
  /\ UNCHANGED << rows_, aborted >>

RowAssign ==
  /\ ~aborted
  /\ \E n \in RowNames, m \in RowNames :
       /\ Live(n)
       /\ Live(m)
       /\ IF n # m
            THEN /\ row' = [row EXCEPT ![n] = << QLRow_Assign(row[n][1], row[m][1]) >>]
                 /\ UNCHANGED aborted
            ELSE \E out \in QLRow_SelfAssign(row[n][1]) :
                   /\ row' = [row EXCEPT ![n] = << out.row >>]
                   /\ aborted' = out.crash
  /\ RowOp("operator=(const QLRow&)")
  /\ UNCHANGED rows_

RowMoveAssign ==
  /\ ~aborted
  /\ \E n \in RowNames, m \in RowNames :
       /\ Live(n)
       /\ Live(m)
       /\ IF n # m
            THEN /\ row' = [row EXCEPT ![n] = << QLRow_MoveAssign(row[n][1], row[m][1]) >>]
                 /\ UNCHANGED aborted
            ELSE \E out \in QLRow_SelfAssign(row[n][1]) :
                   /\ row' = [row EXCEPT ![n] = << out.row >>]
                   /\ aborted' = out.crash
  /\ RowOp("operator=(QLRow&&)")
  /\ UNCHANGED rows_

RowDestroy ==
  /\ ~aborted
  /\ \E n \in RowNames :
       /\ Live(n)
       /\ row' = [row EXCEPT ![n] = << >>]
  /\ RowOp("~QLRow")
  /\ UNCHANGED << rows_, aborted >>

\* AddRow of one of the free-standing rows.
AddRowOf ==
  /\ ~aborted
  /\ Len(rows_) < MaxRows
  /\ \E m \in RowNames :
       /\ Live(m)
       /\ rows_' = QLRowBlock_AddRow(rows_, row[m][1])
  /\ Plain("AddRow", "OK")
  /\ UNCHANGED << schema_, column_ids, buffer, ser, aborted >>
  /\ Unused

NextRow ==
  \/ RowNew
  \/ RowSetValue
  \/ RowCopy
  \/ RowMove
  \/ RowAssign
  \/ RowMoveAssign
  \/ RowDestroy
  \/ Extend
  \/ AddRowOf

SpecRow == InitRow /\ [][NextRow]_vars

-----------------------------------------------------------------------------
(* What the claims are stated with *)

RECURSIVE ConcatAll(_)
\* The concatenation of a sequence of byte strings.
ConcatAll(ss) == IF ss = << >> THEN << >> ELSE Head(ss) \o ConcatAll(Tail(ss))

\* The encodings of a row's values, one after the other in column order.
RowEncoding(r) ==
  ConcatAll([c \in 1..Len(r.values_) |->
               QLValue_Serialize(r.schema_[1][c].type, r.values_[c])])

\* The encodings of the rows, one after the other in block order.
BlockEncoding(rows) == ConcatAll([i \in 1..Len(rows) |-> RowEncoding(rows[i])])

\* The four bytes of a number 0 <= n < 2^31, most significant first.
BigEndian4(n) ==
  << n \div 16777216, (n \div 65536) % 256, (n \div 256) % 256, n % 256 >>

\* Every row is a row of this schema.
ValidRows(rows, schema) ==
  \A i \in 1..Len(rows) : rows[i].schema_ = SchemaPtr(schema)

\* The last call was this operation and got past its dialect check.
Ran(name) == op.name = name /\ op.client = "YQL_CLIENT_CQL"

\* The count the last Deserialize input declares (its prefix decoded).
Declared == CQLDecodeNum(input).val

\* The buffer holds one valid encoding on the block's schema and nothing else.
BufferIsEncoding == ser.done /\ ser.old = << >> /\ ValidRows(ser.rows, schema_)

-----------------------------------------------------------------------------
(* C1 *)

\* C1: round trip. When the rows of a block, all valid under schema S, were
\* serialized into an empty buffer and exactly those bytes are deserialized
\* into an empty block on S, Deserialize returns OK and the block then holds
\* the same rows, in the same order, value for value.
C1_RoundTrip ==
  (Ran("Deserialize") /\ op.kind = "exact" /\ before = 0 /\ BufferIsEncoding)
    => (status = "OK" /\ rows_ = ser.rows)

C1_Witness ==
  /\ Ran("Deserialize") /\ op.kind = "exact" /\ before = 0 /\ BufferIsEncoding
  /\ num_columns(schema_) = 2
  /\ Len(rows_) = 2
  /\ rows_[1].values_[1] # NullValue
  /\ rows_[2].values_[2] # rows_[1].values_[2]

-----------------------------------------------------------------------------
(* C5 *)

\* C5: corruption detection. Deserialize of a valid encoding followed by one
\* or more extra bytes returns Corruption; and Deserialize returns OK only
\* with the cursor empty and exactly the declared number of rows added.
C5_CorruptionDetected ==
  Ran("Deserialize") =>
    /\ (op.kind = "trailing" /\ BufferIsEncoding) => status = "Corruption"
    /\ (status = "OK" /\ Declared >= 0) =>
         (data = << >> /\ Len(rows_) - before = Declared)

C5_Witness ==
  /\ Ran("Deserialize") /\ op.kind = "trailing" /\ BufferIsEncoding
  /\ status = "Corruption"
  /\ num_columns(schema_) = 1
  /\ Len(ser.rows) = 1
  /\ data = CQLEncodeLength(-1)

-----------------------------------------------------------------------------
(* C6 *)

\* C6: wire layout. Serialize of a block with n rows leaves the bytes already
\* in the buffer in place and appends the 4 bytes of n, most significant
\* first, then the value encodings of each row in block order and column
\* order; for n = 0 it appends the four bytes 0 0 0 0 and nothing else.
C6_WireLayout ==
  Ran("Serialize") =>
    /\ buffer = ser.old \o BigEndian4(Len(rows_)) \o BlockEncoding(rows_)
    /\ rows_ = << >> => buffer = ser.old \o << 0, 0, 0, 0 >>

C6_Witness ==
  /\ Ran("Serialize")
  /\ ser.old # << >>
  /\ Len(rows_) = 2
  /\ num_columns(schema_) = 2
  /\ \A i \in 1..2 : Len(rows_[i].values_) = 2
  /\ rows_[1].values_[1] # NullValue
  /\ rows_[2].values_[2] # NullValue

-----------------------------------------------------------------------------
(* C7 *)

\* C7 as claimed: after a Deserialize call that returned an error, the block
\* holds no row made from the failed input.
C7_NoPartialRows ==
  (Ran("Deserialize") /\ status # "OK") => Len(rows_) = before

\* C7 as the code has it: Deserialize does not roll back. When it returns an
\* error, the block holds no new row only if the count prefix failed to
\* decode; when a row fails to decode, the rows decoded before it and the
\* failing row itself stay in the block; when bytes are left over, all the
\* declared rows stay in the block.
C7_PartialRowsStay ==
  (Ran("Deserialize") /\ status # "OK") =>
    LET added == Len(rows_) - before
        whole == SubSeq(rows_, before + 1, Len(rows_) - 1)
    IN  /\ Len(input) < 4 => (status = "MalformedInput" /\ added = 0)
        /\ (Len(input) >= 4 /\ status = "MalformedInput") =>
             /\ added >= 1
             /\ added <= Declared
             /\ rows_[Len(rows_)].schema_ = SchemaPtr(schema_)
             /\ Len(input) >= 4 + Len(BlockEncoding(whole))
             /\ SubSeq(input, 5, 4 + Len(BlockEncoding(whole))) = BlockEncoding(whole)
        /\ status = "Corruption" =>
             /\ added = (IF Declared > 0 THEN Declared ELSE 0)
             /\ data # << >>

C7_Witness ==
  /\ Ran("Deserialize")
  /\ status = "MalformedInput"
  /\ op.kind = "truncated"
  /\ num_columns(schema_) = 2
  /\ Len(rows_) - before = 2
  /\ rows_[Len(rows_)].values_[1] # NullValue

-----------------------------------------------------------------------------
(* C9 *)

\* C9: append-only growth. Every Extend, AddRow, Serialize and Deserialize
\* call keeps the rows the block held, in their positions; Extend and AddRow
\* add exactly one row at the end (AddRow returning OK), Serialize changes
\* no row, and Deserialize puts the rows it makes after the rows already
\* there.
C9_AppendOnly ==
  [][ (op'.name \in { "Extend", "AddRow", "Serialize", "Deserialize" }) =>
        /\ Len(rows_') >= Len(rows_)
        /\ SubSeq(rows_', 1, Len(rows_)) = rows_
        /\ op'.name \in { "Extend", "AddRow" } => Len(rows_') = Len(rows_) + 1
        /\ op'.name = "Extend" => rows_'[Len(rows_')] = QLRow(schema_)
        /\ op'.name = "AddRow" => status' = "OK"
        /\ op'.name = "Serialize" => rows_' = rows_ ]_vars

C9_Witness ==
  /\ Ran("Deserialize")
  /\ status = "OK"
  /\ before = 1
  /\ Len(rows_) = 3
  /\ num_columns(schema_) = 2
  /\ rows_[1].schema_ # SchemaPtr(schema_)
  /\ rows_[3].values_[2] # NullValue

-----------------------------------------------------------------------------
(* C2 *)

\* What decoding the bytes into an empty block on the pages' schema gives.
Decoded(b) == QLRowBlock_Deserialize(PageSchema, << >>, b)

\* The bytes are the encoding of a block on the pages' schema: the count of
\* its rows, then the rows, and nothing else.
ValidEncoding(b) ==
  /\ Decoded(b).status = "OK"
  /\ Len(b) >= 4
  /\ CQLDecodeNum(b).val = Len(Decoded(b).rows)
  /\ b = BigEndian4(Len(Decoded(b).rows)) \o BlockEncoding(Decoded(b).rows)

RowsOf(b) == Decoded(b).rows

\* The last AppendRowsData call merged a valid encoding with rows into a
\* valid encoding with rows.
MergedTwoPages ==
  /\ ValidEncoding(src) /\ RowsOf(src) # << >>
  /\ ValidEncoding(dst_prev) /\ RowsOf(dst_prev) # << >>

\* C2: merge correctness. AppendRowsData of a valid encoding A with a > 0
\* rows into a valid encoding C with c > 0 rows returns OK; Deserialize of
\* dst then gives the rows of C followed by the rows of A, and GetRowCount
\* of dst gives a + c.
C2_MergeCorrect ==
  /\ (Ran("AppendRowsData") /\ MergedTwoPages) => status = "OK"
  /\ (Ran("Deserialize") /\ input = dst /\ MergedTwoPages) =>
       (status = "OK" /\ rows_ = RowsOf(dst_prev) \o RowsOf(src))
  /\ (Ran("GetRowCount") /\ count.of = dst /\ MergedTwoPages) =>
       /\ count.status = "OK"
       /\ count.count = [carry |-> 0, v |-> Len(RowsOf(dst_prev)) + Len(RowsOf(src))]

C2_Witness ==
  /\ Ran("Deserialize") /\ input = dst /\ MergedTwoPages
  /\ count.of = dst
  /\ Len(rows_) = 3
  /\ rows_[1] # rows_[2]
  /\ rows_[3] # rows_[2]

-----------------------------------------------------------------------------
(* C3 *)

\* The bytes start with a count that decodes to 0.
CountIsZero(b) == Len(b) >= 4 /\ CQLDecodeNum(b).val = 0

\* C3 as claimed: AppendRowsData of an encoded block A into a dst whose
\* prefix decodes to 0 leaves dst identical to A; AppendRowsData of a src
\* whose prefix decodes to 0 returns OK and leaves dst as it was.
C3_MergeIdentity ==
  Ran("AppendRowsData") =>
    /\ (ValidEncoding(src) /\ CountIsZero(dst_prev)) => dst = src
    /\ CountIsZero(src) => (status = "OK" /\ dst = dst_prev)

\* C3 as the code has it: AppendRowsData of an encoded block A with at least
\* one row into a dst whose prefix decodes to 0 leaves dst identical to A;
\* with an A of no rows dst is left as it was, whatever follows its prefix;
\* AppendRowsData of a src whose prefix decodes to 0 returns OK and leaves
\* dst as it was.
C3_MergeIdentityWithRows ==
  Ran("AppendRowsData") =>
    /\ (ValidEncoding(src) /\ CountIsZero(dst_prev)) =>
         /\ status = "OK"
         /\ dst = (IF RowsOf(src) # << >> THEN src ELSE dst_prev)
    /\ CountIsZero(src) => (status = "OK" /\ dst = dst_prev)

C3_Witness ==
  /\ Ran("AppendRowsData")
  /\ ValidEncoding(src) /\ RowsOf(src) # << >>
  /\ CountIsZero(dst_prev) /\ Len(dst_prev) > 4
  /\ dst = src

-----------------------------------------------------------------------------
(* C4 *)

\* C4: count fidelity. When Deserialize accepted the bytes into an empty
\* block, GetRowCount of the same bytes returned OK and the number of rows
\* Deserialize put in the block.
C4_CountFidelity ==
  (Ran("Deserialize") /\ status = "OK" /\ before = 0 /\ count.of = input
     /\ count.status # "none") =>
       (count.status = "OK" /\ count.count = [carry |-> 0, v |-> Len(rows_)])

-----------------------------------------------------------------------------
(* C8 *)

\* C8: unsupported dialect. A Serialize, Deserialize, GetRowCount or
\* AppendRowsData call with a dialect other than YQL_CLIENT_CQL does not
\* return: the process ends at the check, with the output buffer, the
\* block's rows, the slice, the count output and dst as they were.
C8_DialectChecked ==
  [][ op'.client # "YQL_CLIENT_CQL" =>
        /\ aborted'
        /\ UNCHANGED << rows_, buffer, data, status, count, dst >> ]_vars

C8_Witness ==
  /\ aborted
  /\ op.name = "AppendRowsData"
  /\ op.client = "YQL_CLIENT_REDIS"
  /\ Len(dst) > 4
  /\ count.status = "OK"

-----------------------------------------------------------------------------
(* C10 *)

\* The number of columns of a row's schema; a row left without a schema (the
\* source of a move) is counted as having none.
ColumnsOf(r) ==
  IF r.schema_ = NullSchemaPtr THEN 0 ELSE num_columns(r.schema_[1])

\* C10: row length invariant. Every live row, free-standing or in the
\* block, holds exactly as many values as its schema has columns.
C10_RowLength ==
  /\ \A n \in RowNames : Live(n) => Len(row[n][1].values_) = ColumnsOf(row[n][1])
  /\ \A i \in 1..Len(rows_) : Len(rows_[i].values_) = ColumnsOf(rows_[i])

-----------------------------------------------------------------------------
(* C11 *)

\* The block was constructed from BaseSchema and a column-id list.
Projected == column_ids # << >>

\* The listed ids that BaseSchema has, in the order of the list.
KeptIds == SelectSeq(column_ids[1],
                     LAMBDA id : \E c \in 1..Len(BaseSchema) : BaseSchema[c].id = id)

\* The column of BaseSchema with this id.
BaseColumn(id) ==
  CHOOSE col \in { BaseSchema[c] : c \in 1..Len(BaseSchema) } : col.id = id

\* The encoding of a row by the kept columns only, in the order of the list.
KeptEncoding(r) ==
  ConcatAll([k \in 1..Len(KeptIds) |->
               QLValue_Serialize(BaseColumn(KeptIds[k]).type, r.values_[k])])

KeptBlockEncoding(rows) ==
  ConcatAll([i \in 1..Len(rows) |-> KeptEncoding(rows[i])])

\* C11: lenient projection. A block constructed from the base schema and a
\* column-id list has as its schema exactly the listed ids the base schema
\* has, in the order of the list, and the construction is no error; a row
\* made by Extend has one null value per projected column; Serialize writes,
\* and Deserialize reads, the values of those columns only, in that order.
C11_LenientProjection ==
  Projected =>
    /\ Len(schema_) = Len(KeptIds)
    /\ \A k \in 1..Len(KeptIds) : schema_[k] = BaseColumn(KeptIds[k])
    /\ op.name = "Construct" => (~aborted /\ status = "none")
    /\ Ran("Extend") =>
         /\ Len(rows_) = before + 1
         /\ rows_[Len(rows_)].values_ = [k \in 1..Len(KeptIds) |-> NullValue]
    /\ (Ran("Serialize") /\ ValidRows(rows_, schema_)) =>
         buffer = ser.old \o BigEndian4(Len(rows_)) \o KeptBlockEncoding(rows_)
    /\ (Ran("Deserialize") /\ status = "OK") =>
         /\ \A i \in (before + 1)..Len(rows_) :
              Len(rows_[i].values_) = Len(KeptIds)
         /\ input = CQLEncodeLength(Declared)
                      \o KeptBlockEncoding(SubSeq(rows_, before + 1, Len(rows_)))

C11_Witness ==
  /\ column_ids = << << 3, 1, 9 >> >>
  /\ schema_ = << Column(3, "INT8"), Column(1, "INT8") >>
  /\ Ran("Deserialize") /\ status = "OK" /\ op.kind = "exact"
  /\ before = 0
  /\ Len(rows_) = 2
  /\ rows_[1].values_ = << Int8Value(-1), NullValue >>
  /\ rows_[2].values_ = << NullValue, Int8Value(-1) >>

-----------------------------------------------------------------------------
(* C12 *)

\* The counts the last AppendRowsData call read from src and from dst, and
\* the bytes after a buffer's count.
SrcCount == CQLDecodeNum(src).val
DstCount == CQLDecodeNum(dst_prev).val
Body(b) == SubSeq(b, 5, Len(b))

\* a + b is an int32.
SumFits(a, b) ==
  IF b >= 0 THEN a <= MaxInt32 - b ELSE a >= (-MaxInt32 - 1) - b

\* dst after a merge of src into dst_prev.
MergedDst ==
  IF DstCount = 0 THEN src
  ELSE CQLEncodeLength(DstCount + SrcCount) \o Body(dst_prev) \o Body(src)

\* C12 as claimed: AppendRowsData leaves dst as it was when src's count is 0;
\* for every other count of src, negative ones too, it decodes dst's count
\* and makes dst either src (dst's count 0) or dst followed by src's bytes
\* after its count, with the sum of the counts written over dst's count.
C12_BranchSelection ==
  (Ran("AppendRowsData") /\ Len(src) >= 4) =>
    /\ SrcCount = 0 => dst = dst_prev
    /\ (SrcCount # 0 /\ Len(dst_prev) >= 4 /\ SumFits(DstCount, SrcCount)) =>
         dst = MergedDst

\* C12 as the code has it: AppendRowsData returns OK and leaves dst as it was
\* when src's count is 0 or negative, whatever dst holds; for a count of src
\* above 0 it decodes dst's count and makes dst either src (dst's count 0) or
\* dst followed by src's bytes after its count, with the sum of the counts
\* (when it is an int32) written over dst's count.
C12_BranchOnPositive ==
  (Ran("AppendRowsData") /\ Len(src) >= 4) =>
    /\ SrcCount <= 0 => (status = "OK" /\ dst = dst_prev)
    /\ (SrcCount > 0 /\ Len(dst_prev) >= 4 /\ SumFits(DstCount, SrcCount)) =>
         (status = "OK" /\ dst = MergedDst)

C12_Witness ==
  /\ Ran("AppendRowsData")
  /\ Len(src) > 4 /\ SrcCount < 0
  /\ Len(dst_prev) > 4 /\ DstCount > 0
  /\ status = "OK"
  /\ dst = dst_prev

-----------------------------------------------------------------------------
(* C13 *)

\* The last AppendRowsData call added a count of src above 0 to a count of
\* dst other than 0, and the sum is no int32.
Overflowed ==
  /\ Len(src) >= 4 /\ SrcCount > 0
  /\ Len(dst_prev) >= 4 /\ DstCount # 0
  /\ ~SumFits(DstCount, SrcCount)

\* The sum of the two counts less 2^32.
WrappedSum == ((DstCount - MaxInt32) - 1) + ((SrcCount - MaxInt32) - 1)

-----------------------------------------------------------------------------
(* C14 *)

\* The status is an error.
IsError(st) == st \notin { "OK", "none" }

\* C14: prefix decode failures. GetRowCount of fewer than 4 bytes returns an
\* error; AppendRowsData returns an error and leaves dst as it was when src
\* has fewer than 4 bytes, and when src's count is above 0 and dst has fewer
\* than 4 bytes; Deserialize of fewer than 4 bytes returns an error and adds
\* no row to the block.
C14_PrefixErrors ==
  /\ (Ran("GetRowCount") /\ Len(count.of) < 4) =>
       (IsError(status) /\ count.status = status)
  /\ (Ran("AppendRowsData") /\ Len(src) < 4) =>
       (IsError(status) /\ dst = dst_prev /\ ~aborted)
  /\ (Ran("AppendRowsData") /\ Len(src) >= 4 /\ SrcCount > 0 /\ Len(dst_prev) < 4) =>
       (IsError(status) /\ dst = dst_prev /\ ~aborted)
  /\ (Ran("Deserialize") /\ Len(input) < 4) =>
       (IsError(status) /\ Len(rows_) = before /\ data = input)

C14_Witness ==
  /\ Ran("AppendRowsData")
  /\ Len(src) > 4 /\ SrcCount > 0
  /\ dst_prev # << >> /\ Len(dst_prev) < 4
  /\ IsError(status)
  /\ dst = dst_prev

-----------------------------------------------------------------------------
(* C15 *)

RECURSIVE RowsOfAll(_)
\* The rows of the pages, one page after the other.
RowsOfAll(ps) ==
  IF ps = << >> THEN << >> ELSE RowsOf(Head(ps)) \o RowsOfAll(Tail(ps))

\* dst started as a valid encoding, every AppendRowsData call that returned
\* had a valid encoding as its src, and the process is alive.
MergedValidPages ==
  /\ ~aborted
  /\ ValidEncoding(dst_init)
  /\ \A k \in 1..Len(pages) : ValidEncoding(pages[k])

\* C15: well-formedness under repeated merging. When dst starts as a valid
\* encoding and every page merged into it is a valid encoding on the same
\* schema, dst is a valid encoding after each call: its count is the count it
\* started with plus the counts of the pages, and its rows are the rows it
\* started with followed by the rows of the pages in call order; a page
\* without rows leaves dst as it was.
C15_MergeKeepsValid ==
  MergedValidPages =>
    /\ ValidEncoding(dst)
    /\ RowsOf(dst) = RowsOf(dst_init) \o RowsOfAll(pages)
    /\ CQLDecodeNum(dst).val = Len(RowsOf(dst_init)) + Len(RowsOfAll(pages))
    /\ (Ran("AppendRowsData") /\ ValidEncoding(src) /\ RowsOf(src) = << >>) =>
         (status = "OK" /\ dst = dst_prev)

C15_Witness ==
  /\ MergedValidPages
  /\ Ran("AppendRowsData")
  /\ Len(pages) = 2
  /\ RowsOf(dst) = << PageRow(NullValue), PageRow(Int8Value(-1)), PageRow(NullValue) >>
  /\ RowsOf(dst_init) = << PageRow(NullValue) >>

=============================================================================
